---- MODULE Spec2Model ----
(***************************************************************************)
(* Model of the reconciliation tool of src/app.py: a Streamlit script that *)
(* is re-executed from top to bottom on every interaction.  Strings are    *)
(* sequences of one-character strings, so that cleaning, parsing and       *)
(* formatting are computed character by character as the code does.        *)
(***************************************************************************)
EXTENDS Integers, Sequences, FiniteSets, TLC

VARIABLES
    f1, f2,             \* the two file uploaders: the loaded table, or no file
    config,             \* the values of the period, column and checkbox widgets
    show_all,           \* the "show all rows" checkbox of the results section
    run_pressed,        \* whether the last script run was started by the button
    analysis_done,      \* st.session_state['analysis_done']
    main_df,            \* st.session_state['main_df']
    investigation_df,   \* st.session_state['investigation_df']
    joined,             \* the local full_merge of the last run that reached the join
    outcome,            \* how the last script run ended
    keyIn,              \* a raw anchor-key cell handed to clean_string_key
    keyOut              \* the results of successive applications of clean_string_key

appVars == <<f1, f2, config, show_all, run_pressed, analysis_done, main_df,
             investigation_df, joined, outcome>>

keyVars == <<keyIn, keyOut>>

vars == <<appVars, keyVars>>

(***************************************************************************)
(* Bounds                                                                  *)
(***************************************************************************)
MaxKeyLen == 4

\* rows of the internal export and of the partner's report in a pipeline run
MaxRows1 == 2
MaxRows2 == 3

(***************************************************************************)
(* Strings                                                                 *)
(***************************************************************************)
Whitespace == {" "}

Digits == {"0", "1", "2", "3", "4", "5", "6", "7", "8", "9"}

\* str.lower() on one character
LowerChar(c) ==
    CASE c = "A" -> "a"
      [] c = "B" -> "b"
      [] c = "K" -> "k"
      [] c = "X" -> "x"
      [] OTHER -> c

StrLower(s) == [i \in 1..Len(s) |-> LowerChar(s[i])]

RECURSIVE LStrip(_)
LStrip(s) ==
    IF s # <<>> /\ Head(s) \in Whitespace THEN LStrip(Tail(s)) ELSE s

RECURSIVE RStrip(_)
RStrip(s) ==
    IF s # <<>> /\ s[Len(s)] \in Whitespace
    THEN RStrip(SubSeq(s, 1, Len(s) - 1))
    ELSE s

\* str.strip()
StrStrip(s) == RStrip(LStrip(s))

EndsWith(s, suffix) ==
    /\ Len(s) >= Len(suffix)
    /\ SubSeq(s, Len(s) - Len(suffix) + 1, Len(s)) = suffix

\* re.sub(r'\.0$', '', s): at most one match, at the end of the string
DropTrailingDotZero(s) ==
    IF EndsWith(s, <<".", "0">>) THEN SubSeq(s, 1, Len(s) - 2) ELSE s

\* A variant that applies the regex before stripping the whitespace.
clean_string_key_regex_first(s) == StrLower(StrStrip(DropTrailingDotZero(s)))

\* clean_string_key on one cell: strip, lower, drop one trailing ".0"
clean_string_key(s) == DropTrailingDotZero(StrLower(StrStrip(s)))

\* clean_compare_string on one cell: strip only, case is kept
clean_compare_string(s) == StrStrip(s)

(***************************************************************************)
(* Prices.  A price cell is held as the value of its decimal literal in    *)
(* thousandths, n, and stands for the float64 nearest to n / 1000, which   *)
(* is what float() makes of the literal; arithmetic on prices is done on   *)
(* that float64 (FloatOf below).  A missing number (NaN) is a record with  *)
(* isnull set.                                                             *)
(***************************************************************************)
PNull == [isnull |-> TRUE, v |-> 0]

PVal(n) == [isnull |-> FALSE, v |-> n]

DigitVal(c) ==
    CASE c = "0" -> 0 [] c = "1" -> 1 [] c = "2" -> 2 [] c = "3" -> 3
      [] c = "4" -> 4 [] c = "5" -> 5 [] c = "6" -> 6 [] c = "7" -> 7
      [] c = "8" -> 8 [] c = "9" -> 9 [] OTHER -> 0

RECURSIVE DigitsVal(_)
DigitsVal(s) ==
    IF s = <<>> THEN 0
    ELSE 10 * DigitsVal(SubSeq(s, 1, Len(s) - 1)) + DigitVal(s[Len(s)])

AllDigits(s) == \A i \in 1..Len(s) : s[i] \in Digits

RECURSIVE Filter(_, _)
Filter(s, keep) ==
    IF s = <<>> THEN <<>>
    ELSE IF Head(s) \in keep THEN <<Head(s)>> \o Filter(Tail(s), keep)
         ELSE Filter(Tail(s), keep)

\* str.replace(r'[^\d.,-]', '', regex=True).str.replace(',', '.')
CurrencyChars(s) ==
    LET kept == Filter(s, Digits \cup {".", ",", "-"})
    IN  [i \in 1..Len(kept) |-> IF kept[i] = "," THEN "." ELSE kept[i]]

Unsigned(s) == IF s # <<>> /\ Head(s) = "-" THEN Tail(s) ELSE s

DotAt(s) == {i \in 1..Len(s) : s[i] = "."}

\* float(s) accepts [-]digits[.digits] with at least one digit
IsFloatLiteral(s) ==
    LET u == Unsigned(s)
    IN  /\ \A i \in 1..Len(u) : u[i] \in Digits \cup {"."}
        /\ Cardinality(DotAt(u)) <= 1
        /\ \E i \in 1..Len(u) : u[i] \in Digits

\* the value of a float literal, in thousandths
FloatValue(s) ==
    LET u     == Unsigned(s)
        dot   == IF DotAt(u) = {} THEN Len(u) + 1 ELSE CHOOSE i \in DotAt(u) : TRUE
        whole == SubSeq(u, 1, dot - 1)
        frac  == SubSeq(u, dot + 1, Len(u))
        frac3 == SubSeq(frac \o <<"0", "0", "0">>, 1, 3)
        mag   == 1000 * DigitsVal(whole) + DigitsVal(frac3)
    IN  IF s # <<>> /\ Head(s) = "-" THEN 0 - mag ELSE mag

\* pd.api.types.is_numeric_dtype: the loader gave the column a numeric type,
\* which it does when every cell is a plain number
is_numeric_dtype(cells) ==
    \A i \in 1..Len(cells) : IsFloatLiteral(cells[i]) /\ CurrencyChars(cells[i]) = cells[i]

\* whether clean_currency returns (TRUE) or astype(float) raises ValueError
clean_currency_ok(cells) ==
    is_numeric_dtype(cells) \/ \A i \in 1..Len(cells) : IsFloatLiteral(CurrencyChars(cells[i]))

\* clean_currency on a column whose cells all convert
clean_currency(cells) ==
    [i \in 1..Len(cells) |->
        IF is_numeric_dtype(cells) THEN PVal(FloatValue(cells[i]))
        ELSE PVal(FloatValue(CurrencyChars(cells[i])))]

Abs(x) == IF x < 0 THEN 0 - x ELSE x

(***************************************************************************)
(* float64 arithmetic on prices                                           *)
(*                                                                         *)
(* A natural number is a sequence of limbs, least significant first, with  *)
(* no leading zero limb.  A float64 is [neg, m, e] and stands for          *)
(* (-1)^neg * m * 2^e with m below 2^53 (or 2^53 itself).  Prices stay far *)
(* from the subnormal and the overflow ranges.                             *)
(***************************************************************************)
Base == 2^15

RECURSIVE Norm(_)
Norm(b) ==
    IF b = <<>> THEN <<>>
    ELSE IF b[Len(b)] = 0 THEN Norm(SubSeq(b, 1, Len(b) - 1)) ELSE b

RECURSIVE BigOf(_)
BigOf(n) == IF n = 0 THEN <<>> ELSE <<n % Base>> \o BigOf(n \div Base)

RECURSIVE IntOf(_)
IntOf(b) == IF b = <<>> THEN 0 ELSE Head(b) + Base * IntOf(Tail(b))

Limb(b, i) == IF i <= Len(b) THEN b[i] ELSE 0

\* -1, 0 or 1 as a < b, a = b or a > b; i is the limb compared next
RECURSIVE BigCmpFrom(_, _, _)
BigCmpFrom(a, b, i) ==
    IF i = 0 THEN 0
    ELSE IF Limb(a, i) < Limb(b, i) THEN 0 - 1
    ELSE IF Limb(a, i) > Limb(b, i) THEN 1
    ELSE BigCmpFrom(a, b, i - 1)

BigCmp(a, b) == BigCmpFrom(a, b, IF Len(a) > Len(b) THEN Len(a) ELSE Len(b))

RECURSIVE BigAddFrom(_, _, _, _)
BigAddFrom(a, b, i, carry) ==
    IF i > Len(a) /\ i > Len(b)
    THEN (IF carry = 0 THEN <<>> ELSE <<carry>>)
    ELSE LET t == Limb(a, i) + Limb(b, i) + carry
         IN  <<t % Base>> \o BigAddFrom(a, b, i + 1, t \div Base)

BigAdd(a, b) == BigAddFrom(a, b, 1, 0)

\* a - b for a >= b
RECURSIVE BigSubFrom(_, _, _, _)
BigSubFrom(a, b, i, borrow) ==
    IF i > Len(a) THEN <<>>
    ELSE LET t == Limb(a, i) - Limb(b, i) - borrow
         IN  IF t < 0 THEN <<t + Base>> \o BigSubFrom(a, b, i + 1, 1)
             ELSE <<t>> \o BigSubFrom(a, b, i + 1, 0)

BigSub(a, b) == Norm(BigSubFrom(a, b, 1, 0))

\* b * c for 0 < c <= Base
RECURSIVE MulSmallFrom(_, _, _, _)
MulSmallFrom(b, c, i, carry) ==
    IF i > Len(b) THEN (IF carry = 0 THEN <<>> ELSE <<carry>>)
    ELSE LET t == b[i] * c + carry
         IN  <<t % Base>> \o MulSmallFrom(b, c, i + 1, t \div Base)

MulSmall(b, c) == MulSmallFrom(b, c, 1, 0)

\* quotient and remainder of b by d, 0 < d <= Base, from the top limb down
RECURSIVE DivSmallFrom(_, _, _, _)
DivSmallFrom(b, d, i, rem) ==
    IF i = 0 THEN [q |-> <<>>, r |-> rem]
    ELSE LET t    == rem * Base + b[i]
             rest == DivSmallFrom(b, d, i - 1, t % d)
         IN  [q |-> Append(rest.q, t \div d), r |-> rest.r]

DivSmall(b, d) ==
    LET res == DivSmallFrom(b, d, Len(b), 0)
    IN  [q |-> Norm(res.q), r |-> res.r]

Zeros(n) == [i \in 1..n |-> 0]

\* b * 2^k
Shl(b, k) ==
    IF b = <<>> THEN <<>>
    ELSE Zeros(k \div 15) \o MulSmall(b, 2^(k % 15))

\* floor(b / 2^k)
Shr(b, k) ==
    IF k \div 15 >= Len(b) THEN <<>>
    ELSE DivSmall(SubSeq(b, (k \div 15) + 1, Len(b)), 2^(k % 15)).q

RECURSIVE IntBitLen(_)
IntBitLen(n) == IF n = 0 THEN 0 ELSE 1 + IntBitLen(n \div 2)

BitLen(b) == IF b = <<>> THEN 0 ELSE 15 * (Len(b) - 1) + IntBitLen(b[Len(b)])

IsOdd(b) == b # <<>> /\ b[1] % 2 = 1

\* b / 2^k rounded to the nearest integer, a tie to the even one
ShrRound(b, k) ==
    IF k = 0 THEN b
    ELSE LET q    == Shr(b, k)
             rem  == BigSub(b, Shl(q, k))
             half == BigCmp(rem, Shl(<<1>>, k - 1))
         IN  IF half > 0 \/ (half = 0 /\ IsOdd(q)) THEN BigAdd(q, <<1>>) ELSE q

Float(neg, m, e) == [neg |-> neg, m |-> m, e |-> e]

FloatZero == Float(FALSE, <<>>, 0)

\* the float64 nearest to m * 2^e
Round53(neg, m, e) ==
    IF BitLen(m) <= 53 THEN Float(neg, m, e)
    ELSE LET s == BitLen(m) - 53
         IN  Float(neg, ShrRound(m, s), e + s)

\* float() of a decimal literal worth n thousandths: the float64 nearest to
\* n / 1000, a tie to the even mantissa
FloatOf(n) ==
    IF n = 0 THEN FloatZero
    ELSE LET a  == Abs(n)
             k1 == 63 - IntBitLen(a)
             d1 == DivSmall(Shl(BigOf(a), k1), 1000)
             k  == IF BitLen(d1.q) > 53 THEN k1 - 1 ELSE k1
             d  == IF k = k1 THEN d1 ELSE DivSmall(Shl(BigOf(a), k), 1000)
             up == 2 * d.r > 1000 \/ (2 * d.r = 1000 /\ IsOdd(d.q))
         IN  Float(n < 0, IF up THEN BigAdd(d.q, <<1>>) ELSE d.q, 0 - k)

\* x - y, exact and then rounded to float64
FloatSub(x, y) ==
    LET e  == IF x.e < y.e THEN x.e ELSE y.e
        mx == Shl(x.m, x.e - e)
        my == Shl(y.m, y.e - e)
        c  == BigCmp(mx, my)
    IN  IF x.neg # y.neg /\ y.m # <<>> /\ x.m # <<>> THEN Round53(x.neg, BigAdd(mx, my), e)
        ELSE IF y.m = <<>> THEN x
        ELSE IF x.m = <<>> THEN Float(~y.neg, y.m, y.e)
        ELSE IF c = 0 THEN FloatZero
        ELSE IF c > 0 THEN Round53(x.neg, BigSub(mx, my), e)
        ELSE Round53(~x.neg, BigSub(my, mx), e)

FloatAbs(x) == Float(FALSE, x.m, x.e)

\* x > y for x, y >= 0
FloatGreater(x, y) ==
    LET e == IF x.e < y.e THEN x.e ELSE y.e
    IN  BigCmp(Shl(x.m, x.e - e), Shl(y.m, y.e - e)) > 0

\* x * 100, exact and then rounded to float64
FloatTimes100(x) == Round53(x.neg, MulSmall(x.m, 100), x.e)

\* rint(x) as an integer: the nearest integer, a tie to the even one
FloatRint(x) ==
    LET k == IntOf(IF x.e >= 0 THEN Shl(x.m, x.e) ELSE ShrRound(x.m, 0 - x.e))
    IN  IF x.neg THEN 0 - k ELSE k

(***************************************************************************)
(* Dates                                                                   *)
(***************************************************************************)
NaT == [isnull |-> TRUE, year |-> 0, month |-> 0, day |-> 0]

Timestamp(y, m, d) == [isnull |-> FALSE, year |-> y, month |-> m, day |-> d]

IsLeap(y) == (y % 4 = 0 /\ y % 100 # 0) \/ y % 400 = 0

DaysIn(y, m) ==
    IF m \in {4, 6, 9, 11} THEN 30
    ELSE IF m = 2 THEN (IF IsLeap(y) THEN 29 ELSE 28)
    ELSE 31

ValidDate(y, m, d) == y >= 1 /\ m \in 1..12 /\ d \in 1..DaysIn(y, m)

\* s.replace('T', ' ').replace('Z', '')
DropTZ(s) ==
    LET spaced == [i \in 1..Len(s) |-> IF s[i] = "T" THEN " " ELSE s[i]]
    IN  Filter(spaced, {spaced[i] : i \in 1..Len(spaced)} \ {"Z"})

\* positions where \d{4}-\d{2}-\d{2} matches
IsoAt(s) ==
    {i \in 1..(Len(s) - 9) :
        /\ AllDigits(SubSeq(s, i, i + 3)) /\ s[i + 4] = "-"
        /\ AllDigits(SubSeq(s, i + 5, i + 6)) /\ s[i + 7] = "-"
        /\ AllDigits(SubSeq(s, i + 8, i + 9))}

\* positions where \d{2}\.\d{2}\.\d{4} matches
EuroAt(s) ==
    {i \in 1..(Len(s) - 9) :
        /\ AllDigits(SubSeq(s, i, i + 1)) /\ s[i + 2] = "."
        /\ AllDigits(SubSeq(s, i + 3, i + 4)) /\ s[i + 5] = "."
        /\ AllDigits(SubSeq(s, i + 6, i + 9))}

First(S) == CHOOSE i \in S : \A j \in S : i <= j

\* pd.to_datetime on the text the ISO regex captured; isnull when it raises
IsoParse(s) ==
    LET i == First(IsoAt(s))
        y == DigitsVal(SubSeq(s, i, i + 3))
        m == DigitsVal(SubSeq(s, i + 5, i + 6))
        d == DigitsVal(SubSeq(s, i + 8, i + 9))
    IN  IF ValidDate(y, m, d) THEN Timestamp(y, m, d) ELSE NaT

\* pd.to_datetime without dayfirst on NN.NN.NNNN: the first number is the month
EuroParseMonthFirst(s) ==
    LET i == First(EuroAt(s))
        m == DigitsVal(SubSeq(s, i, i + 1))
        d == DigitsVal(SubSeq(s, i + 3, i + 4))
        y == DigitsVal(SubSeq(s, i + 6, i + 9))
    IN  IF ValidDate(y, m, d) THEN Timestamp(y, m, d) ELSE NaT

\* pd.to_datetime(..., dayfirst=True) on the text the Euro regex captured;
\* isnull when it raises
EuroParse(s) ==
    LET i == First(EuroAt(s))
        d == DigitsVal(SubSeq(s, i, i + 1))
        m == DigitsVal(SubSeq(s, i + 3, i + 4))
        y == DigitsVal(SubSeq(s, i + 6, i + 9))
    IN  IF ValidDate(y, m, d) THEN Timestamp(y, m, d) ELSE NaT

\* pd.to_datetime(s, errors='coerce') on what the two regexes did not settle.
\* Of the generic parser only the month-first reading of NN.NN.NNNN is
\* modelled; every other text of the model's cells is one it cannot read.
GenericParse(s) ==
    IF EuroAt(s) # {} /\ Len(s) = 10 THEN EuroParseMonthFirst(s) ELSE NaT

nuclear_date_parser(val) ==
    LET s == DropTZ(StrStrip(val))
    IN  IF IsoAt(s) # {} /\ ~IsoParse(s).isnull THEN IsoParse(s)
        ELSE IF EuroAt(s) # {} /\ ~EuroParse(s).isnull THEN EuroParse(s)
        ELSE GenericParse(s)

Pad2(n) == <<CHOOSE c \in Digits : DigitVal(c) = n \div 10,
             CHOOSE c \in Digits : DigitVal(c) = n % 10>>

Pad4(n) == Pad2(n \div 100) \o Pad2(n % 100)

\* Timestamp.strftime('%d.%m.%Y')
strftime(dt) == Pad2(dt.day) \o <<".">> \o Pad2(dt.month) \o <<".">> \o Pad4(dt.year)

(***************************************************************************)
(* Uploaded tables.  A row maps each column name to the text of its cell;  *)
(* both files carry the columns id, date, Price, User and Exist.           *)
(***************************************************************************)
Columns == <<"id", "date", "Price", "User", "Exist">>

ColumnSet == {Columns[i] : i \in 1..Len(Columns)}

Cell(id, date, price, user, exist) ==
    [id |-> id, date |-> date, Price |-> price, User |-> user, Exist |-> exist]

Jan15 == <<"2", "0", "2", "6", "-", "0", "1", "-", "1", "5">>
Jan15Stamp == Jan15 \o <<"T", "1", "0", ":", "0", "0", "Z">>
Jan20 == <<"2", "0", "2", "6", "-", "0", "1", "-", "2", "0">>
Feb15Euro == <<"1", "5", ".", "0", "2", ".", "2", "0", "2", "6">>
Feb01Euro == <<"0", "1", ".", "0", "2", ".", "2", "0", "2", "6">>
Jan15LastYearEuro == <<"1", "5", ".", "0", "1", ".", "2", "0", "2", "5">>
NoDate == <<"n", "/", "a">>

\* rows of the internal export
OurRows ==
    << Cell(<<"A", "1">>, Jan15, <<"1", "0", "0">>, <<"b", "o", "b">>, <<"y">>),
       Cell(<<"A", "1">>, Feb15Euro, <<"1", "0", "0", ".", "0", "2">>, <<"b", "o", "b", " ">>, <<"y">>),
       Cell(<<"7", ".", "0">>, NoDate, <<"a", "b", "c">>, <<"B", "o", "b">>, <<"n">>),
       Cell(<<"X", "9">>, Jan20, <<"$", "1", ",", "5">>, <<"b", "o", "b">>, <<"y">>) >>

\* rows of the partner's report
PartnerRows ==
    << Cell(<<"a", "1", " ">>, Jan15Stamp, <<"1", "0", "0", ".", "0", "0">>, <<"b", "o", "b">>, <<"y">>),
       Cell(<<"a", "1">>, Feb01Euro, <<"1", "0", "0", ".", "0", "2">>, <<"B", "o", "b">>, <<"y">>),
       Cell(<<"7">>, Jan20, <<"1", ".", "5">>, <<"B", "o", "b">>, <<"y">>),
       Cell(<<"B", "2">>, Jan15LastYearEuro, <<"5">>, <<"x">>, <<"n">>),
       Cell(<<" ", "A", "1">>, Jan20, <<"1", "0", "0", ".", "0", "1">>, <<"a", "n", "n">>, <<"y">>) >>

\* the index lists of length at most n over 1..k
RECURSIVE Picks(_, _)
Picks(k, n) ==
    IF n = 0 THEN {<<>>}
    ELSE LET shorter == Picks(k, n - 1)
         IN  shorter \cup
             {Append(p, i) : p \in {q \in shorter : Len(q) = n - 1},
                             i \in 1..k}

SortedPicks(k, n) ==
    {p \in Picks(k, n) : \A i \in 1..(Len(p) - 1) : p[i] < p[i + 1]}

\* the tables of at most n of the rows, in their order
TablesOf(rows, n) ==
    {[i \in 1..Len(p) |-> rows[p[i]]] : p \in SortedPicks(Len(rows), n)}

NoFile == [loaded |-> FALSE, rows |-> <<>>]

File(rows) == [loaded |-> TRUE, rows |-> rows]

ColumnCells(df, col) == [i \in 1..Len(df) |-> df[i][col]]

(***************************************************************************)
(* Widget values of one script run                                         *)
(***************************************************************************)
\* the first column whose name contains 'date', 'time', 'created', 'at' or
\* the Russian word for date; of the model's columns only "date" does
find_date_col(cols) ==
    LET hits == {i \in 1..Len(cols) : cols[i] = "date"}
    IN  IF hits = {} THEN cols[1] ELSE cols[First(hits)]

\* selectbox("Год", range(2023, 2030), index=3)
DefaultYear == 2026

\* the first entry of the months mapping
DefaultMonth == 1

NotChosen == "None"

Config(month, dc1, dc2, pc, va1, va2, vb1, vb2) ==
    [ target_year |-> DefaultYear, target_month |-> month,
      date_col_1 |-> dc1, date_col_2 |-> dc2,
      key_col_1 |-> Columns[1], key_col_2 |-> Columns[1],
      use_price |-> pc # NotChosen, p_col_1 |-> pc, p_col_2 |-> pc,
      use_var_a |-> va1 # NotChosen, va_col_1 |-> va1, va_col_2 |-> va2,
      use_var_b |-> vb1 # NotChosen, vb_col_1 |-> vb1, vb_col_2 |-> vb2 ]

\* the widgets as first rendered: January 2026, the detected date columns,
\* the first column as key, the price check on with the first column as
\* price column, both text checks off
DefaultConfig ==
    Config(DefaultMonth, find_date_col(Columns), find_date_col(Columns),
           Columns[1], NotChosen, NotChosen, NotChosen, NotChosen)

\* add_field_name: the label of field B, taken from the chosen column
add_field_name(cfg) == IF cfg.use_var_b THEN cfg.vb_col_1 ELSE "Dop. pole"

StatusKey(name) == "Status_" \o name

(***************************************************************************)
(* Status labels.  The code's labels are Russian; they are transliterated  *)
(* here, and the code's substring tests ('...' in status) are membership   *)
(* tests on the labels that contain the substring.                         *)
(***************************************************************************)
ST_OK == "OK"
MissingAtPartner == "Otsutstvuet u partnera (Voobshche)"
FoundAtPartner == "Ne sovpadaet data (Naideno u partnera v drugom mesyatse)"
MissingAtOurs == "Otsutstvuet u nas (Voobshche)"
FoundAtOurs == "Ne sovpadaet data (Naideno u nas v drugom mesyatse)"
PriceError == "Oshibka v summe"
UserError == "Oshibka v tekstovom pole A"
AddError(name) == "Oshibka v pole " \o name

FieldNames == ColumnSet \cup {"Dop. pole"}

HasOtsutstvuet(s) == s \in {MissingAtPartner, MissingAtOurs}

HasNeSovpadaetData(s) == s \in {FoundAtPartner, FoundAtOurs}

HasOshibka(s) == s \in {PriceError, UserError} \cup {AddError(n) : n \in FieldNames}

(***************************************************************************)
(* Step 2 of the run: the two prepared frames                              *)
(***************************************************************************)
NaN == <<"NaN">>

NoColumns == <<>>

data1(df1, cfg) ==
    [i \in 1..Len(df1) |->
        ("_anchor" :> clean_string_key(df1[i][cfg.key_col_1]))
        @@ ("ID_OUR" :> df1[i][cfg.key_col_1])
        @@ ("Date_OUR" :> nuclear_date_parser(df1[i][cfg.date_col_1]))
        @@ (IF cfg.use_price
            THEN "Price_1" :> clean_currency(ColumnCells(df1, cfg.p_col_1))[i]
            ELSE NoColumns)
        @@ (IF cfg.use_var_a
            THEN "User_1" :> clean_compare_string(df1[i][cfg.va_col_1])
            ELSE NoColumns)
        @@ (IF cfg.use_var_b
            THEN "Add_1" :> clean_compare_string(df1[i][cfg.vb_col_1])
            ELSE NoColumns)]

data2(df2, cfg) ==
    [i \in 1..Len(df2) |->
        ("_anchor" :> clean_string_key(df2[i][cfg.key_col_2]))
        @@ ("ID_PROV" :> df2[i][cfg.key_col_2])
        @@ ("Date_PROV" :> nuclear_date_parser(df2[i][cfg.date_col_2]))
        @@ (IF cfg.use_price
            THEN "Price_2" :> clean_currency(ColumnCells(df2, cfg.p_col_2))[i]
            ELSE NoColumns)
        @@ (IF cfg.use_var_a
            THEN "User_2" :> clean_compare_string(df2[i][cfg.va_col_2])
            ELSE NoColumns)
        @@ (IF cfg.use_var_b
            THEN "Add_2" :> clean_compare_string(df2[i][cfg.vb_col_2])
            ELSE NoColumns)]

\* the cells the join fills in for the side that has no row
NullLeft(cfg) ==
    ("ID_OUR" :> NaN) @@ ("Date_OUR" :> NaT)
    @@ (IF cfg.use_price THEN "Price_1" :> PNull ELSE NoColumns)
    @@ (IF cfg.use_var_a THEN "User_1" :> NaN ELSE NoColumns)
    @@ (IF cfg.use_var_b THEN "Add_1" :> NaN ELSE NoColumns)

NullRight(cfg) ==
    ("ID_PROV" :> NaN) @@ ("Date_PROV" :> NaT)
    @@ (IF cfg.use_price THEN "Price_2" :> PNull ELSE NoColumns)
    @@ (IF cfg.use_var_a THEN "User_2" :> NaN ELSE NoColumns)
    @@ (IF cfg.use_var_b THEN "Add_2" :> NaN ELSE NoColumns)

(***************************************************************************)
(* Step 3 of the run: pd.merge(data1, data2, on='_anchor', how='outer',    *)
(* indicator=True).  Keys come out in sorted order; within a key every     *)
(* left row is paired with every right row.                                *)
(***************************************************************************)
CharOrder ==
    << " ", "$", ",", "-", ".", "/", "0", "1", "2", "3", "4", "5", "6", "7",
       "8", "9", ":", "A", "B", "K", "T", "X", "Z", "a", "b", "c", "k", "n",
       "o", "x", "y" >>

CharRank(c) == CHOOSE i \in 1..Len(CharOrder) : CharOrder[i] = c

RECURSIVE StrLess(_, _)
StrLess(a, b) ==
    IF b = <<>> THEN FALSE
    ELSE IF a = <<>> THEN TRUE
    ELSE IF Head(a) = Head(b) THEN StrLess(Tail(a), Tail(b))
    ELSE CharRank(Head(a)) < CharRank(Head(b))

RECURSIVE SortedKeys(_)
SortedKeys(S) ==
    IF S = {} THEN <<>>
    ELSE LET least == CHOOSE k \in S : \A j \in S \ {k} : StrLess(k, j)
         IN  <<least>> \o SortedKeys(S \ {least})

RECURSIVE RowsWithKey(_, _)
RowsWithKey(frame, k) ==
    IF frame = <<>> THEN <<>>
    ELSE IF Head(frame)["_anchor"] = k
         THEN <<Head(frame)>> \o RowsWithKey(Tail(frame), k)
         ELSE RowsWithKey(Tail(frame), k)

AnchorsOf(frame) == {frame[i]["_anchor"] : i \in 1..Len(frame)}

\* A variant of the join that keeps one joined row per key present on both
\* sides.
KeyGroupFirstMatch(left, right, cfg) ==
    IF left # <<>> /\ right # <<>>
    THEN <<left[1] @@ right[1] @@ ("_merge" :> "both")>>
    ELSE IF right = <<>>
    THEN [i \in 1..Len(left) |-> left[i] @@ NullRight(cfg) @@ ("_merge" :> "left_only")]
    ELSE [i \in 1..Len(right) |-> right[i] @@ NullLeft(cfg) @@ ("_merge" :> "right_only")]

\* the joined rows of one key
KeyGroup(left, right, cfg) ==
    IF left # <<>> /\ right # <<>>
    THEN [n \in 1..(Len(left) * Len(right)) |->
             left[((n - 1) \div Len(right)) + 1]
             @@ right[((n - 1) % Len(right)) + 1]
             @@ ("_merge" :> "both")]
    ELSE IF right = <<>>
    THEN [i \in 1..Len(left) |-> left[i] @@ NullRight(cfg) @@ ("_merge" :> "left_only")]
    ELSE [i \in 1..Len(right) |-> right[i] @@ NullLeft(cfg) @@ ("_merge" :> "right_only")]

RECURSIVE MergeKeys(_, _, _, _)
MergeKeys(keys, left, right, cfg) ==
    IF keys = <<>> THEN <<>>
    ELSE KeyGroup(RowsWithKey(left, Head(keys)), RowsWithKey(right, Head(keys)), cfg)
         \o MergeKeys(Tail(keys), left, right, cfg)

full_merge(left, right, cfg) ==
    MergeKeys(SortedKeys(AnchorsOf(left) \cup AnchorsOf(right)), left, right, cfg)

(***************************************************************************)
(* Step 4 of the run: period filter                                        *)
(***************************************************************************)
\* A variant of check_month that compares the month alone.
check_month_any_year(dt, cfg) == ~dt.isnull /\ dt.month = cfg.target_month

check_month(dt, cfg) ==
    IF dt.isnull THEN FALSE
    ELSE dt.month = cfg.target_month /\ dt.year = cfg.target_year

WithInMonth(joined_rows, cfg) ==
    [i \in 1..Len(joined_rows) |->
        joined_rows[i]
        @@ ("In_Month_OUR" :> check_month(joined_rows[i]["Date_OUR"], cfg))
        @@ ("In_Month_PROV" :> check_month(joined_rows[i]["Date_PROV"], cfg))]

RECURSIVE Masked(_)
Masked(frame) ==
    IF frame = <<>> THEN <<>>
    ELSE IF Head(frame)["In_Month_OUR"] \/ Head(frame)["In_Month_PROV"]
         THEN <<Head(frame)>> \o Masked(Tail(frame))
         ELSE Masked(Tail(frame))

(***************************************************************************)
(* Step 5 of the run: the status matrix                                    *)
(***************************************************************************)
\* a price cell as a float64, an absent one as 0.0
fillna0(p) == IF p.isnull THEN FloatZero ELSE FloatOf(p.v)

\* round(x, 2): rint(x * 100) / 100, named by its value in thousandths
Round2(x) == 10 * FloatRint(FloatTimes100(x))

WithDiff(frame, cfg) ==
    IF cfg.use_price
    THEN [i \in 1..Len(frame) |->
            frame[i] @@ ("Diff" :> Round2(FloatSub(fillna0(frame[i]["Price_1"]),
                                                   fillna0(frame[i]["Price_2"]))))]
    ELSE frame

\* res[k] = v
Put(res, k, v) == [x \in DOMAIN res \cup {k} |-> IF x = k THEN v ELSE res[x]]

\* the dict literal res is built from, its keys set in the order written
InitialRes(cfg) ==
    Put(Put(Put(Put(NoColumns, "Status_Exist", ST_OK), "Status_Price", ""),
            "Status_User", ""),
        StatusKey(add_field_name(cfg)), "")

\* the literal 0.01 as a float64
Tolerance == FloatOf(10)

PriceStatus(row) ==
    IF FloatGreater(FloatAbs(FloatSub(fillna0(row["Price_1"]), fillna0(row["Price_2"]))),
                    Tolerance)
    THEN PriceError ELSE ST_OK

UserStatus(row) == IF row["User_1"] # row["User_2"] THEN UserError ELSE ST_OK

AddStatus(row, cfg) ==
    IF row["Add_1"] # row["Add_2"] THEN AddError(add_field_name(cfg)) ELSE ST_OK

\* the content check, each enabled field written to its key in turn
ContentCheck(res, row, cfg) ==
    LET r1 == IF cfg.use_price THEN Put(res, "Status_Price", PriceStatus(row)) ELSE res
        r2 == IF cfg.use_var_a THEN Put(r1, "Status_User", UserStatus(row)) ELSE r1
    IN  IF cfg.use_var_b
        THEN Put(r2, StatusKey(add_field_name(cfg)), AddStatus(row, cfg))
        ELSE r2

\* the existence check: the label, and whether the function returns at once
Existence(row) ==
    IF row["In_Month_OUR"] /\ ~row["In_Month_PROV"]
    THEN IF row["_merge"] = "left_only"
         THEN [status |-> MissingAtPartner, final |-> TRUE]
         ELSE [status |-> FoundAtPartner, final |-> FALSE]
    ELSE IF ~row["In_Month_OUR"] /\ row["In_Month_PROV"]
    THEN IF row["_merge"] = "right_only"
         THEN [status |-> MissingAtOurs, final |-> TRUE]
         ELSE [status |-> FoundAtOurs, final |-> FALSE]
    ELSE [status |-> ST_OK, final |-> FALSE]

\* A variant that runs the content check on every row, the missing ones too.
analyze_row_matrix_compares_all(row, cfg) ==
    LET e   == Existence(row)
        res == IF e.status = ST_OK THEN InitialRes(cfg)
               ELSE Put(InitialRes(cfg), "Status_Exist", e.status)
    IN  ContentCheck(res, row, cfg)

analyze_row_matrix(row, cfg) ==
    LET e   == Existence(row)
        res == IF e.status = ST_OK THEN InitialRes(cfg)
               ELSE Put(InitialRes(cfg), "Status_Exist", e.status)
    IN  IF e.final THEN res ELSE ContentCheck(res, row, cfg)

\* pd.concat([df_main, status_cols], axis=1)
WithStatus(frame, cfg) ==
    [i \in 1..Len(frame) |-> frame[i] @@ analyze_row_matrix(frame[i], cfg)]

is_dirty(row, cfg) ==
    IF HasOtsutstvuet(row["Status_Exist"]) THEN TRUE
    ELSE IF HasNeSovpadaetData(row["Status_Exist"]) THEN TRUE
    ELSE IF cfg.use_price /\ HasOshibka(row["Status_Price"]) THEN TRUE
    ELSE IF cfg.use_var_a /\ HasOshibka(row["Status_User"]) THEN TRUE
    ELSE IF cfg.use_var_b /\ HasOshibka(row[StatusKey(add_field_name(cfg))]) THEN TRUE
    ELSE FALSE

WithIsError(frame, cfg) ==
    [i \in 1..Len(frame) |-> frame[i] @@ ("Is_Error" :> is_dirty(frame[i], cfg))]

\* df_main as stored by the run
df_main(joined_rows, cfg) ==
    WithIsError(WithStatus(WithDiff(Masked(WithInMonth(joined_rows, cfg)), cfg), cfg), cfg)

(***************************************************************************)
(* Investigation                                                           *)
(***************************************************************************)
Unknown == <<"U", "n", "k", "n", "o", "w", "n">>

Neizvestno == <<"N", "e", "i", "z", "v", "e", "s", "t", "n", "o">>

NotFoundAtPartner == [verdict |-> "Ne naideno v faile partnera", date |-> <<>>]

NotFoundAtOurs == [verdict |-> "Ne naideno v nashem faile", date |-> <<>>]

FoundAtPartnerOn(d) == [verdict |-> "Naideno u partnera, data:", date |-> d]

FoundAtOursOn(d) == [verdict |-> "Naideno u nas, data:", date |-> d]

NoVerdict == [verdict |-> "", date |-> <<>>]

investigate_row(row) ==
    LET status == row["Status_Exist"]
        s_prov == IF ~row["Date_PROV"].isnull THEN strftime(row["Date_PROV"]) ELSE Neizvestno
        s_our  == IF ~row["Date_OUR"].isnull THEN strftime(row["Date_OUR"]) ELSE Neizvestno
    IN  IF status = MissingAtPartner THEN NotFoundAtPartner
        ELSE IF status = FoundAtPartner THEN FoundAtPartnerOn(s_prov)
        ELSE IF status = MissingAtOurs THEN NotFoundAtOurs
        ELSE IF status = FoundAtOurs THEN FoundAtOursOn(s_our)
        ELSE NoVerdict

RECURSIVE NotOkRows(_)
NotOkRows(frame) ==
    IF frame = <<>> THEN <<>>
    ELSE IF HasOtsutstvuet(Head(frame)["Status_Exist"])
            \/ HasNeSovpadaetData(Head(frame)["Status_Exist"])
         THEN <<Head(frame)>> \o NotOkRows(Tail(frame))
         ELSE NotOkRows(Tail(frame))

\* df_investigation as stored by the run
df_investigation(main) ==
    LET picked == NotOkRows(main)
    IN  [i \in 1..Len(picked) |->
            picked[i] @@ ("Investigation" :> investigate_row(picked[i]))]

(***************************************************************************)
(* One execution of the script                                             *)
(***************************************************************************)
NoneDf == [isNone |-> TRUE, rows |-> <<>>]

Frame(rows) == [isNone |-> FALSE, rows |-> rows]

Ended(kind, what) == [kind |-> kind, what |-> what]

HasDate(df, col) == \E i \in 1..Len(df) : ~nuclear_date_parser(df[i][col]).isnull

\* A variant of the run that checks the dates of the first file only.
RunEndsFirstDatesOnly(df1, df2, c) ==
    IF ~HasDate(df1, c.date_col_1) THEN Ended("st.stop", c.date_col_1)
    ELSE IF c.use_price /\ ~clean_currency_ok(ColumnCells(df1, c.p_col_1))
    THEN Ended("ValueError", c.p_col_1)
    ELSE IF c.use_price /\ ~clean_currency_ok(ColumnCells(df2, c.p_col_2))
    THEN Ended("ValueError", c.p_col_2)
    ELSE IF df_main(full_merge(data1(df1, c), data2(df2, c), c), c) = <<>>
    THEN Ended("ValueError", "Is_Error")
    ELSE Ended("done", "")

\* how the block under run_pressed ends: st.stop() after a date error, an
\* exception out of clean_currency, an exception at the Is_Error assignment
\* when no joined row is in the period, or completion
RunEnds(df1, df2, c) ==
    IF ~HasDate(df1, c.date_col_1) THEN Ended("st.stop", c.date_col_1)
    ELSE IF ~HasDate(df2, c.date_col_2) THEN Ended("st.stop", c.date_col_2)
    ELSE IF c.use_price /\ ~clean_currency_ok(ColumnCells(df1, c.p_col_1))
    THEN Ended("ValueError", c.p_col_1)
    ELSE IF c.use_price /\ ~clean_currency_ok(ColumnCells(df2, c.p_col_2))
    THEN Ended("ValueError", c.p_col_2)
    ELSE IF df_main(full_merge(data1(df1, c), data2(df2, c), c), c) = <<>>
    THEN Ended("ValueError", "Is_Error")
    ELSE Ended("done", "")

ReachesJoin(e) == e.kind = "done" \/ (e.kind = "ValueError" /\ e.what = "Is_Error")

(***************************************************************************)
(* The results section                                                     *)
(***************************************************************************)
RECURSIVE Discrepancies(_)
Discrepancies(frame) ==
    IF frame = <<>> THEN <<>>
    ELSE IF Head(frame)["Is_Error"] THEN <<Head(frame)>> \o Discrepancies(Tail(frame))
         ELSE Discrepancies(Tail(frame))

\* the "price errors" metric
price_cnt(main, c) ==
    IF c.use_price
    THEN Cardinality({i \in 1..Len(main) :
                        main[i]["Is_Error"] /\ main[i]["Status_Price"] = PriceError})
    ELSE 0

\* the "other errors" metric
content_cnt(main, c) ==
    (IF c.use_var_a
     THEN Cardinality({i \in 1..Len(main) :
                         main[i]["Is_Error"] /\ HasOshibka(main[i]["Status_User"])})
     ELSE 0)
    + (IF c.use_var_b
       THEN Cardinality({i \in 1..Len(main) :
                           /\ main[i]["Is_Error"]
                           /\ HasOshibka(main[i][StatusKey(add_field_name(c))])})
       ELSE 0)

\* the columns the metrics read beyond those every stored frame has
MetricColumns(c) ==
    (IF c.use_price THEN {"Status_Price", "Diff"} ELSE {})
    \cup (IF c.use_var_a THEN {"Status_User"} ELSE {})
    \cup (IF c.use_var_b THEN {StatusKey(add_field_name(c))} ELSE {})

\* the columns view_main[cols] selects
ViewColumns(c) ==
    {"ID_OUR", "ID_PROV", "Date_OUR", "Date_PROV", "Status_Exist"}
    \cup (IF c.use_price THEN {"Price_1", "Price_2", "Diff", "Status_Price"} ELSE {})
    \cup (IF c.use_var_a THEN {"User_1", "User_2", "Status_User"} ELSE {})
    \cup (IF c.use_var_b THEN {"Add_1", "Add_2", StatusKey(add_field_name(c))} ELSE {})

DateStr(dt) == IF dt.isnull THEN Unknown ELSE strftime(dt)

\* df_inv['Date_OUR_Str'] = ..., df_inv['Date_PROV_Str'] = ...: written into
\* the stored frame itself
WithDateStr(frame) ==
    [i \in 1..Len(frame) |->
        [x \in DOMAIN frame[i] \cup {"Date_OUR_Str", "Date_PROV_Str"} |->
            IF x = "Date_OUR_Str" THEN DateStr(frame[i]["Date_OUR"])
            ELSE IF x = "Date_PROV_Str" THEN DateStr(frame[i]["Date_PROV"])
            ELSE frame[i][x]]]

\* the script from "RESULTS DISPLAY" on: how it ends, the value the checkbox
\* keeps, and the stored investigation frame afterwards
Display(done, main, inv, c, files_ready, show) ==
    IF ~done
    THEN [ended |-> Ended("hint", ""), show_all |-> FALSE, inv |-> inv]
    ELSE IF ~files_ready
    THEN [ended |-> Ended("NameError", "target_month_name"), show_all |-> FALSE, inv |-> inv]
    ELSE
      LET rows    == main.rows
          have    == DOMAIN rows[1]
          view    == IF show THEN rows ELSE Discrepancies(rows)
          missing == IF rows = <<>> THEN {}
                     ELSE (MetricColumns(c) \ have)
                          \cup (IF view = <<>> THEN {} ELSE ViewColumns(c) \ have)
      IN  IF rows # <<>> /\ MetricColumns(c) \ have # {}
          THEN [ended |-> Ended("KeyError", CHOOSE k \in MetricColumns(c) \ have : TRUE),
                show_all |-> FALSE, inv |-> inv]
          ELSE IF missing # {}
          THEN [ended |-> Ended("KeyError", CHOOSE k \in missing : TRUE),
                show_all |-> show, inv |-> inv]
          ELSE [ended |-> Ended("rendered", ""), show_all |-> show /\ rows # <<>>,
                inv |-> Frame(WithDateStr(inv.rows))]

\* the state in which a script run that reached the results section ends
Finish(F1, F2, c, pressed, done, mdf, jn, shown) ==
    /\ f1' = F1
    /\ f2' = F2
    /\ config' = c
    /\ run_pressed' = pressed
    /\ show_all' = shown.show_all
    /\ analysis_done' = done
    /\ main_df' = mdf
    /\ investigation_df' = shown.inv
    /\ joined' = jn
    /\ outcome' = shown.ended
    /\ UNCHANGED keyVars

\* a rerun of the script, the button not pressed, after the widgets took the
\* values F1, F2, c, show; without both files the setting widgets are not
\* rendered and come back with their defaults
Rerun(F1, F2, c, show) ==
    LET files_ready == F1.loaded /\ F2.loaded
        widgets == IF files_ready THEN c ELSE DefaultConfig
    IN  \E shown \in {Display(analysis_done, main_df, investigation_df,
                              widgets, files_ready, show)} :
            Finish(F1, F2, widgets, FALSE, analysis_done, main_df, joined, shown)

\* the state in which a run ends that stopped or raised under run_pressed
Abort(run, jn) ==
    /\ run_pressed' = TRUE
    /\ show_all' = FALSE
    /\ joined' = jn
    /\ outcome' = run
    /\ UNCHANGED <<f1, f2, config, analysis_done, main_df, investigation_df, keyVars>>

(***************************************************************************)
(* The operator's steps                                                    *)
(***************************************************************************)
\* the tables the operator uploads in a session
SessionTables1 ==
    { <<OurRows[1], OurRows[2], OurRows[4]>>, <<OurRows[1], OurRows[3]>> }

SessionTables2 ==
    { SubSeq(PartnerRows, 1, 3), <<PartnerRows[4]>> }

\* the widget settings the operator moves between in a session
SessionConfigs ==
    { DefaultConfig,
      Config(1, "date", "date", "Price", NotChosen, NotChosen, NotChosen, NotChosen),
      Config(1, "User", "date", "Price", NotChosen, NotChosen, NotChosen, NotChosen),
      Config(1, "date", "User", NotChosen, "User", "User", NotChosen, NotChosen),
      Config(1, "date", "date", "Price", "id", "User", NotChosen, NotChosen),
      Config(2, "date", "date", NotChosen, NotChosen, NotChosen, "id", "id"),
      Config(1, "date", "date", "Price", NotChosen, NotChosen, "Price", "Price") }

Upload1 ==
    \E t \in SessionTables1 :
        /\ f1 # File(t)
        /\ Rerun(File(t), f2, config, show_all)

Upload2 ==
    \E t \in SessionTables2 :
        /\ f2 # File(t)
        /\ Rerun(f1, File(t), config, show_all)

Remove1 == f1.loaded /\ Rerun(NoFile, f2, config, show_all)

Remove2 == f2.loaded /\ Rerun(f1, NoFile, config, show_all)

ChangeConfig ==
    \E c \in SessionConfigs :
        /\ f1.loaded /\ f2.loaded
        /\ c # config
        /\ Rerun(f1, f2, c, show_all)

ToggleShowAll ==
    /\ outcome.kind = "rendered"
    /\ main_df.rows # <<>>
    /\ Rerun(f1, f2, config, ~show_all)

\* the button: the block under run_pressed, then the results section
PressRun ==
    /\ f1.loaded /\ f2.loaded
    /\ \E run \in {RunEnds(f1.rows, f2.rows, config)} :
         IF run.kind = "done"
         THEN \E merged \in {full_merge(data1(f1.rows, config),
                                        data2(f2.rows, config), config)} :
              \E main \in {df_main(merged, config)} :
              \E shown \in {Display(TRUE, Frame(main), Frame(df_investigation(main)),
                                    config, TRUE, show_all)} :
                  Finish(f1, f2, config, TRUE, TRUE, Frame(main), merged, shown)
         ELSE IF ReachesJoin(run)
         THEN Abort(run, full_merge(data1(f1.rows, config),
                                    data2(f2.rows, config), config))
         ELSE Abort(run, joined)

KeyIdle == keyIn = <<>> /\ keyOut = <<>>

Init ==
    /\ f1 = NoFile
    /\ f2 = NoFile
    /\ config = DefaultConfig
    /\ show_all = FALSE
    /\ run_pressed = FALSE
    /\ analysis_done = FALSE
    /\ main_df = NoneDf
    /\ investigation_df = NoneDf
    /\ joined = <<>>
    /\ outcome = Ended("hint", "")
    /\ KeyIdle

Next ==
    \/ Upload1
    \/ Upload2
    \/ Remove1
    \/ Remove2
    \/ ChangeConfig
    \/ ToggleShowAll
    \/ PressRun

Spec == Init /\ [][Next]_vars

(***************************************************************************)
(* The run as a function of the two tables and the settings                *)
(***************************************************************************)
PipeConfigs ==
    { Config(m, "date", "date", pc, va, va, vb, vb) :
        m \in {1, 2}, pc \in {NotChosen, "Price"}, va \in {NotChosen, "User"},
        vb \in {NotChosen, "User", "Exist"} }

PipeInit ==
    /\ f1 \in {File(t) : t \in TablesOf(OurRows, MaxRows1)}
    /\ f2 \in {File(t) : t \in TablesOf(PartnerRows, MaxRows2)}
    /\ config \in PipeConfigs
    /\ show_all = FALSE
    /\ run_pressed = FALSE
    /\ analysis_done = FALSE
    /\ main_df = NoneDf
    /\ investigation_df = NoneDf
    /\ joined = <<>>
    /\ outcome = Ended("hint", "")
    /\ KeyIdle

PipeNext == PressRun

SpecPipe == PipeInit /\ [][PipeNext]_vars

(***************************************************************************)
(* Key normalization applied repeatedly to one cell                        *)
(***************************************************************************)
KeyAlphabet == {" ", "A", "a", ".", "0", "1"}

RECURSIVE StringsUpTo(_, _)
StringsUpTo(alphabet, n) ==
    IF n = 0 THEN {<<>>}
    ELSE LET shorter == StringsUpTo(alphabet, n - 1)
         IN  shorter \cup {Append(s, c) : s \in shorter, c \in alphabet}

KeyInit ==
    /\ keyIn \in StringsUpTo(KeyAlphabet, MaxKeyLen)
    /\ keyOut = <<>>
    /\ f1 = NoFile
    /\ f2 = NoFile
    /\ config = DefaultConfig
    /\ show_all = FALSE
    /\ run_pressed = FALSE
    /\ analysis_done = FALSE
    /\ main_df = NoneDf
    /\ investigation_df = NoneDf
    /\ joined = <<>>
    /\ outcome = Ended("hint", "")

NormalizeKey ==
    /\ Len(keyOut) < 2
    /\ keyOut' = Append(keyOut,
                        clean_string_key(IF keyOut = <<>> THEN keyIn
                                         ELSE keyOut[Len(keyOut)]))
    /\ UNCHANGED <<keyIn, appVars>>

KeyNext == NormalizeKey

SpecKey == KeyInit /\ [][KeyNext]_vars

\* C5 (as stated): normalizing a normalized key changes nothing, for every
\* string.
KeyIdempotentAlways == Len(keyOut) = 2 => keyOut[2] = keyOut[1]

\* The stripped cell ends in ".0" and what precedes that ".0" ends in
\* whitespace or in another ".0".
KeyHasNestedSuffix(s) ==
    LET t == StrStrip(s)
    IN  /\ EndsWith(t, <<".", "0">>)
        /\ LET r == SubSeq(t, 1, Len(t) - 2)
           IN  \/ EndsWith(r, <<".", "0">>)
               \/ (r # <<>> /\ r[Len(r)] \in Whitespace)

\* C5 (amended): normalizing a normalized key changes nothing, for every
\* string whose stripped form does not end in ".0" preceded by whitespace or
\* by another ".0".
KeyIdempotentAmended ==
    (Len(keyOut) = 2 /\ ~KeyHasNestedSuffix(keyIn)) => keyOut[2] = keyOut[1]

\* A key with a trailing ".0" and surrounding blanks, normalized twice.
KeyIdempotentWitness ==
    /\ Len(keyOut) = 2
    /\ ~KeyHasNestedSuffix(keyIn)
    /\ EndsWith(StrStrip(keyIn), <<".", "0">>)
    /\ keyIn # StrStrip(keyIn)
    /\ keyOut[1] # keyIn
    /\ keyOut[2] = keyOut[1]

(***************************************************************************)
(* Properties of a run                                                     *)
(***************************************************************************)
\* the last script run was a run that stored its result
RunStored == run_pressed /\ outcome.kind = "rendered"

\* the last script run was a run that got as far as the join
RunJoined == RunStored \/ (run_pressed /\ outcome = Ended("ValueError", "Is_Error"))

MainRows == main_df.rows

\* the existence status the decision table gives a row, from its two period
\* flags and its provenance
TableStatus(row) ==
    LET l == row["In_Month_OUR"]
        r == row["In_Month_PROV"]
        m == row["_merge"]
    IN  CASE l /\ ~r /\ m = "left_only" -> MissingAtPartner
          [] l /\ ~r /\ m = "both" -> FoundAtPartner
          [] ~l /\ r /\ m = "right_only" -> MissingAtOurs
          [] ~l /\ r /\ m = "both" -> FoundAtOurs
          [] l /\ r /\ m = "both" -> ST_OK
          [] OTHER -> "unclassified"

\* C1: every row of the main report carries the existence status that the
\* decision table gives for its period flags and provenance.
ExistenceFollowsTable ==
    RunStored =>
        \A i \in 1..Len(MainRows) :
            MainRows[i]["Status_Exist"] = TableStatus(MainRows[i])

FieldStatusKeys(c) == {"Status_Price", "Status_User", StatusKey(add_field_name(c))}

Compared(v) == v = ST_OK \/ HasOshibka(v)

\* the rows the two mismatch metrics count
CountedAsMismatch(main, c) ==
    {i \in 1..Len(main) :
        \/ price_cnt(<<main[i]>>, c) > 0
        \/ content_cnt(<<main[i]>>, c) > 0}

Restrict(f, S) == [x \in S |-> f[x]]

Prepared1 == data1(f1.rows, config)

Prepared2 == data2(f2.rows, config)

CountKey(frame, k) == Cardinality({i \in 1..Len(frame) : frame[i]["_anchor"] = k})

CountBoth(k) ==
    Cardinality({n \in 1..Len(joined) :
                    joined[n]["_anchor"] = k /\ joined[n]["_merge"] = "both"})

\* C3: every prepared row of either side is found in the joined output, and
\* for each key the rows of provenance both number count_left * count_right.
JoinIsFullOuter ==
    RunJoined =>
        /\ \A i \in 1..Len(Prepared1) :
               \E n \in 1..Len(joined) :
                   Restrict(joined[n], DOMAIN Prepared1[i]) = Prepared1[i]
        /\ \A i \in 1..Len(Prepared2) :
               \E n \in 1..Len(joined) :
                   Restrict(joined[n], DOMAIN Prepared2[i]) = Prepared2[i]
        /\ \A k \in AnchorsOf(Prepared1) \cup AnchorsOf(Prepared2) :
               CountBoth(k) = CountKey(Prepared1, k) * CountKey(Prepared2, k)

\* Two left rows and three right rows share a key and give six joined rows.
JoinIsFullOuterWitness ==
    /\ RunJoined
    /\ \E k \in AnchorsOf(Prepared1) :
           /\ CountKey(Prepared1, k) = 2
           /\ CountKey(Prepared2, k) = 3
           /\ CountBoth(k) = 6

InPeriod(dt) ==
    ~dt.isnull /\ dt.month = config.target_month /\ dt.year = config.target_year

InScope(row) == InPeriod(row["Date_OUR"]) \/ InPeriod(row["Date_PROV"])

CountIn(frame, row) ==
    Cardinality({i \in 1..Len(frame) : Restrict(frame[i], DOMAIN row) = row})

\* C4: the period flags are false for an absent date and otherwise compare
\* month and year with the target; the main report holds exactly the joined
\* rows with a flag set, and the investigation set holds main-report rows
\* only.
PeriodScoping ==
    RunStored =>
        /\ \A i \in 1..Len(MainRows) :
               /\ MainRows[i]["In_Month_OUR"] = InPeriod(MainRows[i]["Date_OUR"])
               /\ MainRows[i]["In_Month_PROV"] = InPeriod(MainRows[i]["Date_PROV"])
               /\ InScope(MainRows[i])
        /\ \A n \in 1..Len(joined) :
               CountIn(MainRows, joined[n])
                   = (IF InScope(joined[n]) THEN CountIn(joined, joined[n]) ELSE 0)
        /\ \A i \in 1..Len(investigation_df.rows) :
               /\ InScope(investigation_df.rows[i])
               /\ \E j \in 1..Len(MainRows) :
                      Restrict(investigation_df.rows[i], DOMAIN MainRows[j]) = MainRows[j]

\* A run whose join holds a pair dated in another month on both sides and a
\* row dated in the target month of another year, none of them reported.
PeriodScopingWitness ==
    /\ RunStored
    /\ \E n \in 1..Len(joined) :
           /\ joined[n]["_merge"] = "both"
           /\ ~joined[n]["Date_OUR"].isnull /\ ~joined[n]["Date_PROV"].isnull
           /\ ~InScope(joined[n])
    /\ \E n \in 1..Len(joined) :
           /\ ~joined[n]["Date_PROV"].isnull
           /\ joined[n]["Date_PROV"].month = config.target_month
           /\ joined[n]["Date_PROV"].year # config.target_year
           /\ ~InScope(joined[n])
    /\ investigation_df.rows # <<>>

\* an enabled field whose two values differ
FieldMismatch(row, c) ==
    \/ c.use_price /\ PriceStatus(row) = PriceError
    \/ c.use_var_a /\ UserStatus(row) = UserError
    \/ c.use_var_b /\ AddStatus(row, c) # ST_OK

\* C6: Is_Error is set exactly for the rows whose existence status is not OK
\* or that have an enabled field whose values differ.
IsErrorIffDiscrepancy ==
    RunStored =>
        \A i \in 1..Len(MainRows) :
            MainRows[i]["Is_Error"]
                = (\/ TableStatus(MainRows[i]) # ST_OK
                   \/ FieldMismatch(MainRows[i], config))

(***************************************************************************)
(* Properties of a session                                                 *)
(***************************************************************************)
\* an enabled text comparison reads the anchor-key column of its side
TextColumnIsKey(c) ==
    \/ c.use_var_a /\ (c.va_col_1 = c.key_col_1 \/ c.va_col_2 = c.key_col_2)
    \/ c.use_var_b /\ (c.vb_col_1 = c.key_col_1 \/ c.vb_col_2 = c.key_col_2)

\* C7: a run whose settings compare the key column as a text field stops
\* with an error naming that column.
RunRejectsKeyAsTextColumn ==
    (run_pressed /\ TextColumnIsKey(config)) =>
        /\ outcome.kind = "st.stop"
        /\ outcome.what \in {config.key_col_1, config.key_col_2}

NoDateParses(F1, F2, c) ==
    \/ ~HasDate(F1.rows, c.date_col_1)
    \/ ~HasDate(F2.rows, c.date_col_2)

DateColumnUnreadable == NoDateParses(f1, f2, config)

PriceCellUnreadable ==
    /\ config.use_price
    /\ \/ ~clean_currency_ok(ColumnCells(f1.rows, config.p_col_1))
       \/ ~clean_currency_ok(ColumnCells(f2.rows, config.p_col_2))

\* C8: a run over a price column with a cell that is not numeric after
\* cleaning still completes and stores a result.
PriceParseIssueContained ==
    (run_pressed /\ PriceCellUnreadable /\ ~DateColumnUnreadable) =>
        (outcome.kind = "rendered" /\ analysis_done)

\* C9: a run over a date column none of whose cells parses stops with an
\* error naming that column and leaves the session state, and the join, as
\* they were.
RunHaltsOnUnreadableDates ==
    [][(run_pressed' /\ NoDateParses(f1', f2', config')) =>
          /\ outcome'.kind = "st.stop"
          /\ outcome'.what = (IF ~HasDate(f1'.rows, config'.date_col_1)
                              THEN config'.date_col_1 ELSE config'.date_col_2)
          /\ UNCHANGED <<analysis_done, main_df, investigation_df, joined>>]_vars

\* A run stopped on the partner's date column while the result of an earlier
\* run is stored.
RunHaltsOnUnreadableDatesWitness ==
    /\ run_pressed
    /\ ~HasDate(f2.rows, config.date_col_2)
    /\ outcome = Ended("st.stop", config.date_col_2)
    /\ analysis_done
    /\ main_df.rows # <<>>

\* C10: once a result is stored, every script run that is not a new run
\* renders the results section.
StoredResultShownOnRedraw ==
    (analysis_done /\ ~run_pressed) => outcome.kind = "rendered"

(***************************************************************************)
(* Properties of the investigation set                                     *)
(***************************************************************************)
InvRows == investigation_df.rows

\* the parsed date as the verdict prints it, or the placeholder the verdict
\* prints for a date that did not parse
VerdictDate(dt) == IF dt.isnull THEN Neizvestno ELSE strftime(dt)

\* the verdict that goes with a row's provenance and period flags
ProvenanceVerdict(row) ==
    LET s == TableStatus(row)
    IN  CASE row["_merge"] = "left_only" -> NotFoundAtPartner
          [] row["_merge"] = "right_only" -> NotFoundAtOurs
          [] s = FoundAtPartner -> FoundAtPartnerOn(VerdictDate(row["Date_PROV"]))
          [] s = FoundAtOurs -> FoundAtOursOn(VerdictDate(row["Date_OUR"]))
          [] OTHER -> NoVerdict

\* C11: the investigation set holds exactly the main-report rows whose
\* existence status is not OK, each with the verdict of its provenance, and
\* no verdict is empty.
InvestigationMatchesProvenance ==
    RunStored =>
        /\ \A j \in 1..Len(MainRows) :
               CountIn(InvRows, MainRows[j])
                   = (IF TableStatus(MainRows[j]) # ST_OK
                      THEN CountIn(MainRows, MainRows[j]) ELSE 0)
        /\ \A i \in 1..Len(InvRows) :
               /\ \E j \in 1..Len(MainRows) :
                      Restrict(InvRows[i], DOMAIN MainRows[j]) = MainRows[j]
               /\ InvRows[i]["Investigation"] = ProvenanceVerdict(InvRows[i])
               /\ InvRows[i]["Investigation"].verdict # ""

(***************************************************************************)
(* Properties of the price check                                           *)
(***************************************************************************)
\* the distance of a row's two prices in thousandths, an absent price as 0
PriceDistance(row) ==
    Abs((IF row["Price_1"].isnull THEN 0 ELSE row["Price_1"].v)
        - (IF row["Price_2"].isnull THEN 0 ELSE row["Price_2"].v))

\* C12: on a row in-period on both sides the price status is the mismatch
\* label when the two prices are more than 0.01 apart and OK otherwise, so
\* prices exactly 0.01 apart match.
PriceToleranceIsOneCent ==
    (RunStored /\ config.use_price) =>
        \A i \in 1..Len(MainRows) :
            TableStatus(MainRows[i]) = ST_OK =>
                MainRows[i]["Status_Price"]
                    = (IF PriceDistance(MainRows[i]) > 10 THEN PriceError ELSE ST_OK)

====
